---- MODULE Spec2Model ----
(***************************************************************************)
(* Model of the PPE detection lambdas:                                     *)
(*   AWS/Cloud Lambda/Lambda_PreTrained_and_CustomLabels.py  ("Custom")    *)
(*   AWS/Cloud Lambda/Lambda_PreTrained.py                   ("PreTrained")*)
(*                                                                         *)
(* Coordinates are Python floats in the source.  The code only adds a left *)
(* (top) coordinate to a width (height) and compares the results with <    *)
(* and >, so the model uses integers on a grid (one unit = one grid step   *)
(* of the normalised image).                                               *)
(*                                                                         *)
(* Specifications:                                                         *)
(*   SpecGeom   the bounding box functions applied to two provider boxes   *)
(*   Spec       one lambda process: build_stats (matching + Stats)         *)
(*              followed by the Stats queries in any order, over repeated  *)
(*              invocations                                                *)
(*   SpecParse  the parsers applied to provider label records              *)
(*   SpecInvoke lambda_handler step by step, from the provider's labels to *)
(*              its return, with collaborators that may fail               *)
(***************************************************************************)
EXTENDS Integers, Sequences, FiniteSets, TLC

VARIABLES
    \* ---- SpecGeom -------------------------------------------------------
    gpc,          \* "data" | "boxes" | "tested" | "off"
    lhs_data,     \* provider record Width/Height/Left/Top of the first box
    rhs_data,     \* provider record of the second box
    lhs_box,      \* make_bounding_box(lhs_data), or None
    rhs_box,      \* make_bounding_box(rhs_data), or None
    res_lr,       \* if_boxes_intersect(lhs_box, rhs_box), or None
    res_rl,       \* if_boxes_intersect(rhs_box, lhs_box), or None
    \* ---- Spec -----------------------------------------------------------
    variant,      \* which lambda file runs in this process
    hash_order,   \* iteration order of a set of category names in this process
    config_keys,  \* Config.TARGET_PPE_GROUP_KEYS: its keys, in dict order
    pc,           \* "idle" (no Stats yet) | "built" (a Stats object exists)
    persons,      \* the Person objects of the current invocation, by identity
    equipment_boxes, \* the matcher's input map, a dict in insertion order
    warnings,     \* logging.warning records of the current matching step
    stats,        \* the Stats object: population and equipment2person
    last_call,    \* name and result of the latest Stats query
    first_message,   \* result of the first prepare_message on this Stats
    first_response,  \* URL and result of the first prepare_response on it
    \* ---- SpecParse, SpecInvoke -------------------------------------------
    general_labels,  \* response['Labels'] of detect_labels
    custom_labels,   \* the 'CustomLabels' of the detect_custom_labels calls
    mpos,         \* position of the matching loop: boxes (persons) done
    failed,       \* the collaborators that failed during this invocation
    outcome,      \* "none" | "raised" | "returned": how lambda_handler ended
    invocations,  \* the events this process has taken up so far
    \* ---- SpecVests, SpecVestsFair ----------------------------------------
    vpc,          \* position in matchPersonsAndVests
    personsList,  \* the caller's list of persons
    vestsList,    \* the caller's list of vests
    persons_left, \* the local list persons
    vests,        \* the local list vests
    personsWithvests, \* the local list of pairs
    h_index,      \* h
    matched,
    totalvests,
    vest,         \* the vest of this outer iteration
    totalPersons,
    p_index       \* p

geomVars == <<gpc, lhs_data, rhs_data, lhs_box, rhs_box, res_lr, res_rl>>
procVars == <<variant, hash_order, config_keys, pc, persons, equipment_boxes,
              warnings, stats, last_call, first_message, first_response>>
extVars == <<general_labels, custom_labels, mpos, failed, outcome, invocations>>
vestVars == <<vpc, personsList, vestsList, persons_left, vests,
              personsWithvests, h_index, matched, totalvests, vest,
              totalPersons, p_index>>
vars == <<geomVars, procVars, extVars, vestVars>>

None == "None"

----------------------------------------------------------------------------
(* Bounds *)

\* Largest Left/Top and largest absolute Width/Height of a provider box in
\* SpecGeom.
MaxCoord == 2

\* Most persons in one image and most equipment boxes in one image in Spec.
MaxPersons == 2
MaxEquipment == 2

\* Most labels of a response, most instances of a label and most flat
\* detections of a response in SpecParse.
MaxLabels == 1
MaxInstances == 2
MaxCustomLabels == 1

\* Most labels of a response in SpecInvoke.
MaxSceneLabels == 3

\* Most invocations of lambda_handler in one process in SpecInvoke.
MaxInvocations == 2

\* Longest personsList and longest vestsList in SpecVests.
MaxVestPersons == 3
MaxVests == 3

----------------------------------------------------------------------------
(* Bounding Box Model *)

Min2(a, b) == IF a <= b THEN a ELSE b
Max2(a, b) == IF a >= b THEN a ELSE b

\* class Interval
Interval(lo, hi) == [min |-> lo, max |-> hi]

\* class BoundingBox
BoundingBox(xi, yi) == [x_interval |-> xi, y_interval |-> yi]

\* make_bounding_box without the min/max on the corners.
make_bounding_box_as_given(box_data) ==
    BoundingBox(Interval(box_data.Left, box_data.Left + box_data.Width),
                Interval(box_data.Top, box_data.Top + box_data.Height))

make_bounding_box(box_data) ==
    LET width == box_data.Width
        height == box_data.Height
        left == box_data.Left
        top == box_data.Top
        right == left + width
        bottom == top + height
    IN BoundingBox(Interval(Min2(left, right), Max2(left, right)),
                   Interval(Min2(top, bottom), Max2(top, bottom)))

\* if lhs.min > rhs.min: lhs, rhs = rhs, lhs ; return rhs.min < lhs.max
if_intervals_intersect(lhs, rhs) ==
    LET l == IF lhs.min > rhs.min THEN rhs ELSE lhs
        r == IF lhs.min > rhs.min THEN lhs ELSE rhs
    IN r.min < l.max

if_boxes_intersect(lhs_b, rhs_b) ==
    LET if_x_intersect == if_intervals_intersect(lhs_b.x_interval, rhs_b.x_interval)
        if_y_intersect == if_intervals_intersect(lhs_b.y_interval, rhs_b.y_interval)
    IN if_x_intersect /\ if_y_intersect

----------------------------------------------------------------------------
(* Python containers *)

\* A dict is a sequence of [key, value] entries in insertion order.
DictKeys(d) == { d[i].key : i \in DOMAIN d }

DictHas(d, k) == \E i \in DOMAIN d : d[i].key = k

DictGet(d, k) == d[CHOOSE i \in DOMAIN d : d[i].key = k].value

\* d[k].append(x) on a defaultdict(list)
DictAppend(d, k, x) ==
    IF DictHas(d, k)
    THEN [i \in DOMAIN d |->
            IF d[i].key = k THEN [d[i] EXCEPT !.value = Append(@, x)] ELSE d[i]]
    ELSE Append(d, [key |-> k, value |-> <<x>>])

\* The value read by d[k] on a defaultdict(list)
DefaultGet(d, k) == IF DictHas(d, k) THEN DictGet(d, k) ELSE <<>>

\* The dict after reading d[k] on a defaultdict(list): a missing key is
\* inserted with an empty list.
DefaultTouch(d, k) ==
    IF DictHas(d, k) THEN d ELSE Append(d, [key |-> k, value |-> <<>>])

RECURSIVE DefaultTouchAll(_, _, _)
DefaultTouchAll(d, keys, k) ==
    IF k > Len(keys) THEN d
    ELSE DefaultTouchAll(DefaultTouch(d, keys[k]), keys, k + 1)

\* Iteration order of a set of group names: fixed for the process by the
\* string hashes, not by the alphabet.  hash_order lists the groups that can
\* be put into a set, in the order this process iterates them.
SetOrder(S) == SelectSeq(hash_order, LAMBDA g : g \in S)

Digit(n) == <<"0", "1", "2", "3", "4", "5", "6", "7", "8", "9">>[n + 1]

\* str(n) and "{}".format(n) for n >= 0: the decimal digits
RECURSIVE Str(_)
Str(n) == IF n < 10 THEN <<Digit(n)>> ELSE Str(n \div 10) \o <<Digit(n % 10)>>

SeqsUpTo(S, n) == UNION { [1..k -> S] : k \in 0..n }

Perms(q) ==
    { f \in [1..Len(q) -> { q[i] : i \in DOMAIN q }] :
        \A i, j \in DOMAIN q : i # j => f[i] # f[j] }

----------------------------------------------------------------------------
(* Config *)

\* Config.TARGET_PPE_GROUP_KEYS as declared: its keys in declaration order
DeclaredKeys(v) ==
    IF v = "Custom" THEN <<"helmet", "vest", "mask", "boot">>
    ELSE <<"helmet", "boot">>

\* Config.CUSTOM_LABEL_ARNS: its keys
CUSTOM_LABEL_ARNS(v) == IF v = "Custom" THEN {"vest", "mask"} ELSE {}

\* Config.TURNED_ON_CUSTOM_MODULES
TURNED_ON_CUSTOM_MODULES(v) == IF v = "Custom" THEN {"mask"} ELSE {}

\* The loop of lambda_handler over the keys of Config.CUSTOM_LABEL_ARNS.
prune_entries_arns(v, keys) == <<"vest", "mask">>

\* for key_entry in list(Config.TARGET_PPE_GROUP_KEYS.keys()): the entries
\* the loop visits, a copy of the keys taken before the first del
prune_entries(v, keys) == keys

\* del Config.TARGET_PPE_GROUP_KEYS[key_entry] raises KeyError when a visited
\* entry that is to be deleted is not a key
prune_raises(v, keys) ==
    LET entries == prune_entries(v, keys)
    IN \E i \in DOMAIN entries :
          /\ entries[i] \in CUSTOM_LABEL_ARNS(v)
          /\ entries[i] \notin TURNED_ON_CUSTOM_MODULES(v)
          /\ \A k \in DOMAIN keys : keys[k] # entries[i]

\* The loop of lambda_handler without its del statement.
PruneKeys_keep_all(v, keys) == keys

\* lambda_handler: delete every group that has an ARN and is not turned on
PruneKeys(v, keys) ==
    SelectSeq(keys, LAMBDA key_entry :
        ~(key_entry \in CUSTOM_LABEL_ARNS(v)
          /\ key_entry \notin TURNED_ON_CUSTOM_MODULES(v)))

----------------------------------------------------------------------------
(* Person and the matching step of build_stats *)

\* class Person, with its box filled in by the parser
Person(box) == [equipment |-> {}, ind |-> None, box |-> box]

\* The person loop with a break after the first intersecting person.
assign_box_first_only(ps, group_name, box) ==
    [i \in DOMAIN ps |->
        IF /\ if_boxes_intersect(ps[i].box, box)
           /\ \A j \in 1..(i - 1) : ~if_boxes_intersect(ps[j].box, box)
        THEN [ps[i] EXCEPT !.equipment = @ \cup {group_name}]
        ELSE ps[i]]

\* for person in population: if if_boxes_intersect(person.box, box):
\*     person.equipment.add(group_name)
assign_box(ps, group_name, box) ==
    [i \in DOMAIN ps |->
        IF if_boxes_intersect(ps[i].box, box)
        THEN [ps[i] EXCEPT !.equipment = @ \cup {group_name}]
        ELSE ps[i]]

\* intersected_count at the end of the person loop
intersected_count(ps, box) ==
    Cardinality({ i \in DOMAIN ps : if_boxes_intersect(ps[i].box, box) })

\* Custom: for box in group_boxes: ... ; a warning when one box was
\* assigned to more than one person
RECURSIVE match_group(_, _, _, _, _)
match_group(ps, warns, group_name, group_boxes, j) ==
    IF j > Len(group_boxes) THEN [population |-> ps, warnings |-> warns]
    ELSE LET box == group_boxes[j]
             n == intersected_count(ps, box)
             warns2 == IF n > 1
                       THEN Append(warns, [group |-> group_name, box |-> j,
                                           count |-> n])
                       ELSE warns
         IN match_group(assign_box(ps, group_name, box), warns2,
                        group_name, group_boxes, j + 1)

\* Custom: for group_name, group_boxes in equipment_boxes.items(): ...
RECURSIVE match_custom(_, _, _, _)
match_custom(ps, warns, eb, k) ==
    IF k > Len(eb) THEN [population |-> ps, warnings |-> warns]
    ELSE LET r == match_group(ps, warns, eb[k].key, eb[k].value, 1)
         IN match_custom(r.population, r.warnings, eb, k + 1)

\* The loops of one person with a return after the first group of the map.
person_equipment_first_group(equipment, pbox, eb, k, j) ==
    IF eb = <<>> THEN equipment
    ELSE equipment \cup
           (IF \E i \in DOMAIN eb[1].value : if_boxes_intersect(pbox, eb[1].value[i])
            THEN {eb[1].key} ELSE {})

\* PreTrained: the equipment of one person after
\*   for group, boxes in equipment_boxes.items(): for box in boxes: ...
RECURSIVE person_equipment(_, _, _, _, _)
person_equipment(equipment, pbox, eb, k, j) ==
    IF k > Len(eb) THEN equipment
    ELSE IF j > Len(eb[k].value) THEN person_equipment(equipment, pbox, eb, k + 1, 1)
    ELSE person_equipment(
            IF if_boxes_intersect(pbox, eb[k].value[j])
            THEN equipment \cup {eb[k].key} ELSE equipment,
            pbox, eb, k, j + 1)

\* PreTrained: for person in population: ... ; nothing is logged
match_pretrained(ps, eb) ==
    [population |->
        [i \in DOMAIN ps |->
            [ps[i] EXCEPT !.equipment = person_equipment(@, ps[i].box, eb, 1, 1)]],
     warnings |-> <<>>]

match(v, ps, eb) ==
    IF v = "Custom" THEN match_custom(ps, <<>>, eb, 1) ELSE match_pretrained(ps, eb)

----------------------------------------------------------------------------
(* class Stats *)

\* The object graph during Stats.__init__: the Stats fields and the Person
\* objects they refer to (a Person is referred to by its position in ps).
StatsObj(population, equipment2person, ps) ==
    [population |-> population, equipment2person |-> equipment2person,
     persons |-> ps]

\* The indexing loop with a break after the first key.
index_person_first_key(e2p, keys, k, id) ==
    IF k > Len(keys) THEN e2p ELSE DictAppend(e2p, keys[k], id)

\* for key in person.equipment: self.equipment2person[key].append(person)
RECURSIVE index_person(_, _, _, _)
index_person(e2p, keys, k, id) ==
    IF k > Len(keys) THEN e2p
    ELSE index_person(DictAppend(e2p, keys[k], id), keys, k + 1, id)

\* _add_person with ind taken after the append.
Stats_add_person_ind_late(o, id) ==
    StatsObj(Append(o.population, id),
             index_person(o.equipment2person, SetOrder(o.persons[id].equipment), 1, id),
             [o.persons EXCEPT ![id].ind = Len(o.population) + 1])

\* Stats._add_person
Stats_add_person(o, id) ==
    StatsObj(Append(o.population, id),
             index_person(o.equipment2person, SetOrder(o.persons[id].equipment), 1, id),
             [o.persons EXCEPT ![id].ind = Len(o.population)])

\* Stats.__init__: for person in population: self._add_person(person)
RECURSIVE Stats_init(_, _, _)
Stats_init(o, population, k) ==
    IF k > Len(population) THEN o
    ELSE Stats_init(Stats_add_person(o, population[k]), population, k + 1)

population_size(st) == Len(st.population)

\* unequipped_size with the test inverted.
unequipped_size_nonempty(st, ps) ==
    Len(SelectSeq(st.population, LAMBDA id : Cardinality(ps[id].equipment) # 0))

unequipped_size(st, ps) ==
    Len(SelectSeq(st.population, LAMBDA id : Cardinality(ps[id].equipment) = 0))

equipped_size(st, ps) == population_size(st) - unequipped_size(st, ps)

\* One line of the message text: the format string that produced it and the
\* values formatted into it.
Line(kind, num, name, names) ==
    [kind |-> kind, num |-> num, name |-> name, names |-> names]

\* "Persons with {}: {}.\n" for every group of groups
GroupLines(st, groups) ==
    [k \in 1..Len(groups) |->
        Line("Persons with {}: {}.", Str(Len(DefaultGet(st.equipment2person, groups[k]))),
             groups[k], <<>>)]

\* "Person {} wears: ..." or "Person {} is unequipped." for every person
PersonLines(st, ps) ==
    [k \in 1..Len(st.population) |->
        LET person == ps[st.population[k]]
            idx == k - 1
        IN IF Cardinality(person.equipment) > 0
           THEN Line("Person {} wears: {}.", Str(idx), "", SetOrder(person.equipment))
           ELSE Line("Person {} is unequipped.", Str(idx), "", <<>>)]

MessageHead(v, st, ps) ==
    (IF v = "Custom" THEN <<Line("Report: ", <<>>, "", <<>>)>> ELSE <<>>)
    \o <<Line("Found {} persons.", Str(population_size(st)), "", <<>>),
         Line("Without equipment: {}.", Str(unequipped_size(st, ps)), "", <<>>)>>

\* prepare_message with the group lines taken from the keys of the index.
prepare_message_index_keys(v, st, ps, keys) ==
    MessageHead(v, st, ps)
    \o GroupLines(st, SelectSeq(keys, LAMBDA g : DictHas(st.equipment2person, g)))
    \o PersonLines(st, ps)

\* Stats.prepare_message: the text returned
prepare_message(v, st, ps, keys) ==
    MessageHead(v, st, ps) \o GroupLines(st, keys) \o PersonLines(st, ps)

\* Stats.prepare_message: the Stats object afterwards.  The reads of
\* self.equipment2person[equipment_group] go through defaultdict.
after_prepare_message(st, keys) ==
    [st EXCEPT !.equipment2person = DefaultTouchAll(@, keys, 1)]

\* PersonsPerEquipment with the position in the group's list for person.ind.
persons_per_equipment_position(st, ps, keys) ==
    [k \in 1..Len(keys) |->
        [key |-> keys[k],
         value |-> [j \in 1..Len(DefaultGet(st.equipment2person, keys[k])) |->
                      Str(j - 1)]]]

\* response[PERSONS_PER_EQUIPMENT_KEY][key] =
\*     [str(person.ind) for person in self.equipment2person[key]]
persons_per_equipment(st, ps, keys) ==
    [k \in 1..Len(keys) |->
        [key |-> keys[k],
         value |-> [j \in 1..Len(DefaultGet(st.equipment2person, keys[k])) |->
                      Str(ps[DefaultGet(st.equipment2person, keys[k])[j]].ind)]]]

\* Stats.prepare_response: the object returned
prepare_response(v, st, ps, keys, presigned_url) ==
    [Message |-> prepare_message(v, st, ps, keys),
     ImageUrl |-> presigned_url,
     PopulationSize |-> population_size(st),
     UnequippedSize |-> unequipped_size(st, ps),
     EquipmentPerPerson |->
        [k \in 1..Len(st.population) |->
            [ind |-> ps[st.population[k]].ind,
             equipment |-> SetOrder(ps[st.population[k]].equipment)]],
     PersonsPerEquipment |->
        persons_per_equipment(after_prepare_message(st, keys), ps, keys)]

\* Stats.prepare_response: the Stats object afterwards
after_prepare_response(st, keys) ==
    after_prepare_message(after_prepare_message(st, keys), keys)

----------------------------------------------------------------------------
(* SpecGeom: the box functions on two provider records *)

BoxData(w, h, l, t) == [Width |-> w, Height |-> h, Left |-> l, Top |-> t]

\* Provider records on the grid; widths and heights may be zero or negative.
GeomBoxData ==
    { BoxData(w, h, l, t) : w \in (0 - MaxCoord)..MaxCoord,
                            h \in (0 - MaxCoord)..MaxCoord,
                            l \in 0..MaxCoord, t \in 0..MaxCoord }

ExtIdle ==
    /\ general_labels = <<>>
    /\ custom_labels = <<>>
    /\ mpos = 0
    /\ failed = {}
    /\ outcome = "none"
    /\ invocations = 0

VestIdle ==
    /\ vpc = "off"
    /\ personsList = <<>>
    /\ vestsList = <<>>
    /\ persons_left = None
    /\ vests = None
    /\ personsWithvests = None
    /\ h_index = None
    /\ matched = None
    /\ totalvests = None
    /\ vest = None
    /\ totalPersons = None
    /\ p_index = None

GeomIdle ==
    /\ gpc = "off"
    /\ lhs_data = None
    /\ rhs_data = None
    /\ lhs_box = None
    /\ rhs_box = None
    /\ res_lr = None
    /\ res_rl = None

ProcIdle ==
    /\ ExtIdle
    /\ variant = None
    /\ hash_order = <<>>
    /\ config_keys = <<>>
    /\ pc = "off"
    /\ persons = <<>>
    /\ equipment_boxes = <<>>
    /\ warnings = <<>>
    /\ stats = None
    /\ last_call = None
    /\ first_message = None
    /\ first_response = None

InitGeom ==
    /\ gpc = "data"
    /\ lhs_data \in GeomBoxData
    /\ rhs_data \in GeomBoxData
    /\ lhs_box = None
    /\ rhs_box = None
    /\ res_lr = None
    /\ res_rl = None
    /\ ProcIdle
    /\ VestIdle

\* make_bounding_box on both provider records
MakeBoxes ==
    /\ gpc = "data"
    /\ lhs_box' = make_bounding_box(lhs_data)
    /\ rhs_box' = make_bounding_box(rhs_data)
    /\ gpc' = "boxes"
    /\ UNCHANGED <<lhs_data, rhs_data, res_lr, res_rl, procVars, extVars, vestVars>>

\* if_boxes_intersect in both argument orders
TestBoxes ==
    /\ gpc = "boxes"
    /\ res_lr' = if_boxes_intersect(lhs_box, rhs_box)
    /\ res_rl' = if_boxes_intersect(rhs_box, lhs_box)
    /\ gpc' = "tested"
    /\ UNCHANGED <<lhs_data, rhs_data, lhs_box, rhs_box, procVars, extVars, vestVars>>

NextGeom == MakeBoxes \/ TestBoxes

SpecGeom == InitGeom /\ [][NextGeom]_vars

----------------------------------------------------------------------------
(* Spec: one lambda process *)

Variants == {"Custom", "PreTrained"}

\* Provider boxes of the persons and of the equipment of an image, in tenths
\* of the image: two persons apart from each other, a small item on the first
\* person and a large item over both.
ScenePersonData == { BoxData(5, 5, 0, 0), BoxData(3, 3, 6, 6) }
SceneEquipmentData == { BoxData(1, 1, 1, 1), BoxData(9, 9, 0, 0) }

\* Values of presigned_url
Urls == {"url_a", "url_b"}

\* The parser's population: one Person per accepted person instance
parsed_population(pdata) ==
    [i \in DOMAIN pdata |-> Person(make_bounding_box(pdata[i]))]

\* The parser's equipment map: equipment_boxes[group].append(box) for every
\* accepted equipment instance, in input order
RECURSIVE parsed_equipment(_, _, _)
parsed_equipment(eb, dets, k) ==
    IF k > Len(dets) THEN eb
    ELSE parsed_equipment(
            DictAppend(eb, dets[k][1], make_bounding_box(dets[k][2])), dets, k + 1)

NoStats == [population |-> <<>>, equipment2person |-> <<>>]
NoCall == [name |-> "none", url |-> "", repeat |-> FALSE, result |-> <<>>]
NoFirst == [set |-> FALSE, url |-> "", result |-> <<>>]

Init ==
    /\ variant \in Variants
    /\ hash_order \in Perms(PruneKeys(variant, DeclaredKeys(variant)))
    /\ config_keys = DeclaredKeys(variant)
    /\ pc = "idle"
    /\ persons = <<>>
    /\ equipment_boxes = <<>>
    /\ warnings = <<>>
    /\ stats = NoStats
    /\ last_call = NoCall
    /\ first_message = NoFirst
    /\ first_response = NoFirst
    /\ ExtIdle
    /\ GeomIdle
    /\ VestIdle

\* lambda_handler up to the return of build_stats: the pruning of the
\* configured groups (Custom), the parser's output for some image, the
\* matching loop and Stats(population).
build_stats ==
    /\ pc = "idle"
    /\ LET keys == IF variant = "Custom" THEN PruneKeys(variant, config_keys)
                   ELSE config_keys
           groups == { keys[i] : i \in DOMAIN keys }
       IN \E pdata \in SeqsUpTo(ScenePersonData, MaxPersons),
             dets \in SeqsUpTo(groups \X SceneEquipmentData, MaxEquipment) :
            LET population == parsed_population(pdata)
                eb == parsed_equipment(<<>>, dets, 1)
                m == match(variant, population, eb)
                o == Stats_init(StatsObj(<<>>, <<>>, m.population),
                                [i \in DOMAIN population |-> i], 1)
            IN /\ config_keys' = keys
               /\ equipment_boxes' = eb
               /\ warnings' = m.warnings
               /\ persons' = o.persons
               /\ stats' = [population |-> o.population,
                            equipment2person |-> o.equipment2person]
    /\ pc' = "built"
    /\ last_call' = NoCall
    /\ first_message' = NoFirst
    /\ first_response' = NoFirst
    /\ UNCHANGED <<variant, hash_order, geomVars, vestVars, extVars>>

Call(name, url, repeat, result) ==
    [name |-> name, url |-> url, repeat |-> repeat, result |-> result]

call_population_size ==
    /\ pc = "built"
    /\ last_call' = Call("population_size", "", FALSE, population_size(stats))
    /\ UNCHANGED <<variant, hash_order, config_keys, pc, persons,
                   equipment_boxes, warnings, stats, first_message,
                   first_response, geomVars, vestVars, extVars>>

call_unequipped_size ==
    /\ pc = "built"
    /\ last_call' = Call("unequipped_size", "", FALSE, unequipped_size(stats, persons))
    /\ UNCHANGED <<variant, hash_order, config_keys, pc, persons,
                   equipment_boxes, warnings, stats, first_message,
                   first_response, geomVars, vestVars, extVars>>

call_equipped_size ==
    /\ pc = "built"
    /\ last_call' = Call("equipped_size", "", FALSE, equipped_size(stats, persons))
    /\ UNCHANGED <<variant, hash_order, config_keys, pc, persons,
                   equipment_boxes, warnings, stats, first_message,
                   first_response, geomVars, vestVars, extVars>>

call_prepare_message ==
    /\ pc = "built"
    /\ LET message == prepare_message(variant, stats, persons, config_keys)
       IN /\ last_call' = Call("prepare_message", "", first_message.set, message)
          /\ first_message' = IF first_message.set THEN first_message
                              ELSE [set |-> TRUE, url |-> "", result |-> message]
    /\ stats' = after_prepare_message(stats, config_keys)
    /\ UNCHANGED <<variant, hash_order, config_keys, pc, persons,
                   equipment_boxes, warnings, first_response, geomVars, vestVars, extVars>>

call_prepare_response ==
    /\ pc = "built"
    /\ \E presigned_url \in Urls :
        LET response == prepare_response(variant, stats, persons, config_keys,
                                         presigned_url)
        IN /\ last_call' = Call("prepare_response", presigned_url,
                                first_response.set /\ first_response.url = presigned_url,
                                response)
           /\ first_response' = IF first_response.set THEN first_response
                                ELSE [set |-> TRUE, url |-> presigned_url,
                                      result |-> response]
    /\ stats' = after_prepare_response(stats, config_keys)
    /\ UNCHANGED <<variant, hash_order, config_keys, pc, persons,
                   equipment_boxes, warnings, first_message, geomVars, vestVars, extVars>>

\* lambda_handler returns: the Stats object and the persons of this
\* invocation are dropped, Config stays as the invocation left it.
handler_return ==
    /\ pc = "built"
    /\ pc' = "idle"
    /\ persons' = <<>>
    /\ equipment_boxes' = <<>>
    /\ warnings' = <<>>
    /\ stats' = NoStats
    /\ last_call' = NoCall
    /\ first_message' = NoFirst
    /\ first_response' = NoFirst
    /\ UNCHANGED <<variant, hash_order, config_keys, geomVars, vestVars, extVars>>

Query ==
    \/ call_population_size
    \/ call_unequipped_size
    \/ call_equipped_size
    \/ call_prepare_message
    \/ call_prepare_response

Next == build_stats \/ Query \/ handler_return

Spec == Init /\ [][Next]_vars

----------------------------------------------------------------------------
(* The parsers: provider label records to persons and equipment boxes *)

\* A label name: its letters and how they are cased.  "Safetyjacket" and
\* "safetyjacket" have the same text and different cases.
LabelName(text, case) == [text |-> text, case |-> case]

Cases == {"lower", "Capital", "UPPER"}

\* str.lower()
lower(name) == [name EXCEPT !.case = "lower"]

NamesCased(texts, case) == { LabelName(t, case) : t \in texts }

\* Config.PERSON_KEYS
PERSON_KEYS(v) ==
    IF v = "Custom" THEN NamesCased({"person", "human", "child"}, "lower")
    ELSE NamesCased({"person", "human"}, "Capital")

\* Config.TARGET_PPE_GROUP_KEYS[group]: the names of a group
TARGET_PPE_GROUP_KEYS(v, group) ==
    IF v = "Custom"
    THEN CASE group = "helmet" -> NamesCased({"helmet", "hardhat"}, "lower")
           [] group = "vest" ->
                NamesCased({"vest", "waistcoat", "safetyjacket"}, "lower")
           [] group = "mask" -> NamesCased({"mask", "masks"}, "lower")
           [] group = "boot" -> NamesCased({"boot", "shoe"}, "lower")
    ELSE CASE group = "helmet" -> NamesCased({"helmet", "hardhat"}, "Capital")
           [] group = "boot" -> NamesCased({"boot", "shoe"}, "Capital")

\* label['Name'].lower() in names   (Custom)
\* label['Name'] in names           (PreTrained)
name_in(v, name, names) ==
    IF v = "Custom" THEN lower(name) \in names ELSE name \in names

\* An instance is taken only when it carries a 'Confidence' too.
accepts_entry_confident(v, entry) ==
    entry.HasBoundingBox /\ entry.HasConfidence

\* if 'BoundingBox' in entry                            (Custom)
\* if 'BoundingBox' in entry and 'Confidence' in entry  (PreTrained)
accepts_entry(v, entry) ==
    /\ entry.HasBoundingBox
    /\ (v = "PreTrained" => entry.HasConfidence)

\* for entry in label['Instances']: ... population.append(person)
RECURSIVE person_entries(_, _, _, _)
person_entries(v, entries, k, population) ==
    IF k > Len(entries) THEN population
    ELSE person_entries(v, entries, k + 1,
            IF accepts_entry(v, entries[k])
            THEN Append(population,
                        Person(make_bounding_box(entries[k].BoundingBox)))
            ELSE population)

\* for entry in label['Instances']: ... equipment_boxes[group].append(box)
RECURSIVE equipment_entries(_, _, _, _, _)
equipment_entries(v, entries, k, group, eb) ==
    IF k > Len(entries) THEN eb
    ELSE equipment_entries(v, entries, k + 1, group,
            IF accepts_entry(v, entries[k])
            THEN DictAppend(eb, group,
                            make_bounding_box(entries[k].BoundingBox))
            ELSE eb)

\* for group, names in Config.TARGET_PPE_GROUP_KEYS.items(): the groups a
\* general label is appended to
RECURSIVE label_groups(_, _, _, _, _)
label_groups(v, keys, g, label, eb) ==
    IF g > Len(keys) THEN eb
    ELSE label_groups(v, keys, g + 1, label,
            IF name_in(v, label.Name, TARGET_PPE_GROUP_KEYS(v, keys[g]))
            THEN equipment_entries(v, label.Instances, 1, keys[g], eb)
            ELSE eb)

\* parse_general_objects (Custom) and parse_objects (PreTrained): the loop
\* over the labels, from label k on
RECURSIVE parse_general_objects(_, _, _, _, _, _)
parse_general_objects(v, keys, labels, k, population, eb) ==
    IF k > Len(labels) THEN [population |-> population, equipment_boxes |-> eb]
    ELSE LET label == labels[k]
         IN IF ~label.HasInstances
            THEN parse_general_objects(v, keys, labels, k + 1, population, eb)
            ELSE IF name_in(v, label.Name, PERSON_KEYS(v))
            THEN parse_general_objects(v, keys, labels, k + 1,
                    person_entries(v, label.Instances, 1, population), eb)
            ELSE parse_general_objects(v, keys, labels, k + 1, population,
                    label_groups(v, keys, 1, label, eb))

\* parse_custom_objects: the groups a flat detection is appended to
RECURSIVE custom_entry_groups(_, _, _, _)
custom_entry_groups(keys, g, entry, eb) ==
    IF g > Len(keys) THEN eb
    ELSE custom_entry_groups(keys, g + 1, entry,
            IF /\ lower(entry.Name) \in TARGET_PPE_GROUP_KEYS("Custom", keys[g])
               /\ entry.HasGeometry
               /\ entry.HasBoundingBox
            THEN DictAppend(eb, keys[g], make_bounding_box(entry.BoundingBox))
            ELSE eb)

\* parse_custom_objects: the loop over the flat detections, from entry k on
RECURSIVE parse_custom_objects(_, _, _, _)
parse_custom_objects(keys, labels, k, eb) ==
    IF k > Len(labels) THEN eb
    ELSE parse_custom_objects(keys, labels, k + 1,
            custom_entry_groups(keys, 1, labels[k], eb))

----------------------------------------------------------------------------
(* SpecParse: the parsers on provider records *)

NoBoxData == BoxData(0, 0, 0, 0)

\* An entry of label['Instances']
Instance(has_box, box_data, has_confidence) ==
    [HasBoundingBox |-> has_box, BoundingBox |-> box_data,
     HasConfidence |-> has_confidence]

\* An entry of response['Labels']
Label(name, has_instances, instances) ==
    [Name |-> name, HasInstances |-> has_instances, Instances |-> instances]

\* An entry of response['CustomLabels']
CustomLabel(name, has_geometry, has_box, box_data) ==
    [Name |-> name, HasGeometry |-> has_geometry, HasBoundingBox |-> has_box,
     BoundingBox |-> box_data]

\* Instances with both keys, without 'Confidence', without 'BoundingBox'
ParseInstances ==
    { Instance(TRUE, BoxData(5, 5, 0, 0), TRUE),
      Instance(TRUE, BoxData(3, 3, 6, 6), FALSE),
      Instance(FALSE, NoBoxData, TRUE) }

ParseNames ==
    { LabelName("person", "Capital"), LabelName("person", "lower"),
      LabelName("helmet", "Capital"), LabelName("car", "Capital") }

ParseLabels ==
    { Label(n, FALSE, <<>>) : n \in ParseNames }
    \cup { Label(n, TRUE, instances) :
             n \in ParseNames, instances \in SeqsUpTo(ParseInstances, MaxInstances) }

ParseCustomLabels ==
    { CustomLabel(n, g[1], g[2], g[3]) :
        n \in { LabelName("helmet", "lower"), LabelName("mask", "Capital") },
        g \in { <<TRUE, TRUE, BoxData(1, 1, 1, 1)>>,
                <<TRUE, FALSE, NoBoxData>>,
                <<FALSE, FALSE, NoBoxData>> } }

InitParse ==
    /\ variant \in Variants
    /\ hash_order = <<>>
    /\ config_keys = PruneKeys(variant, DeclaredKeys(variant))
    /\ pc = "labels"
    /\ persons = <<>>
    /\ equipment_boxes = <<>>
    /\ warnings = <<>>
    /\ stats = NoStats
    /\ last_call = NoCall
    /\ first_message = NoFirst
    /\ first_response = NoFirst
    /\ general_labels \in SeqsUpTo(ParseLabels, MaxLabels)
    /\ custom_labels \in
         IF variant = "Custom" THEN SeqsUpTo(ParseCustomLabels, MaxCustomLabels)
         ELSE {<<>>}
    /\ mpos = 0
    /\ failed = {}
    /\ outcome = "none"
    /\ invocations = 0
    /\ GeomIdle
    /\ VestIdle

\* population, equipment_boxes = parse_general_objects(general_response_labels)
parse_general ==
    /\ pc = "labels"
    /\ LET parsed == parse_general_objects(variant, config_keys, general_labels,
                                           1, <<>>, <<>>)
       IN /\ persons' = parsed.population
          /\ equipment_boxes' = parsed.equipment_boxes
    /\ pc' = "general"
    /\ UNCHANGED <<variant, hash_order, config_keys, warnings, stats, last_call,
                   first_message, first_response, geomVars, vestVars, extVars>>

\* parse_custom_objects(custom_response_labels, equipment_boxes)
parse_custom ==
    /\ pc = "general"
    /\ variant = "Custom"
    /\ equipment_boxes' =
         parse_custom_objects(config_keys, custom_labels, 1, equipment_boxes)
    /\ pc' = "parsed"
    /\ UNCHANGED <<variant, hash_order, config_keys, persons, warnings, stats,
                   last_call, first_message, first_response, geomVars, vestVars, extVars>>

NextParse == parse_general \/ parse_custom

SpecParse == InitParse /\ [][NextParse]_vars

----------------------------------------------------------------------------
(* SpecInvoke: lambda_handler step by step *)

\* The external collaborators whose calls may fail
Collaborators == {"rekognition", "cloudwatch", "iot"}

\* The number of steps of the matching loops: one per equipment box in
\* Custom (box-outer), one per person in PreTrained (person-outer)
RECURSIVE box_count(_, _)
box_count(eb, k) ==
    IF k > Len(eb) THEN 0 ELSE Len(eb[k].value) + box_count(eb, k + 1)

match_steps(v, ps, eb) == IF v = "Custom" THEN box_count(eb, 1) ELSE Len(ps)

\* for group_name, group_boxes in equipment_boxes.items():
\*     for box in group_boxes:        the pos-th box of this iteration
RECURSIVE box_at(_, _, _)
box_at(eb, k, pos) ==
    IF pos <= Len(eb[k].value)
    THEN [group |-> eb[k].key, index |-> pos, box |-> eb[k].value[pos]]
    ELSE box_at(eb, k + 1, pos - Len(eb[k].value))

\* A step that assigns the found categories in place of the set.
match_step_assigning(v, ps, eb, pos) ==
    IF v = "Custom"
    THEN LET b == box_at(eb, 1, pos)
         IN [i \in DOMAIN ps |->
               IF if_boxes_intersect(ps[i].box, b.box)
               THEN [ps[i] EXCEPT !.equipment = {b.group}]
               ELSE ps[i]]
    ELSE [ps EXCEPT ![pos].equipment = person_equipment({}, ps[pos].box, eb, 1, 1)]

\* One iteration of the outer matching loop: the persons afterwards
match_step(v, ps, eb, pos) ==
    IF v = "Custom"
    THEN LET b == box_at(eb, 1, pos) IN assign_box(ps, b.group, b.box)
    ELSE [ps EXCEPT ![pos].equipment = person_equipment(@, ps[pos].box, eb, 1, 1)]

\* The warnings after one iteration of the outer matching loop
match_step_warnings(v, ps, warns, eb, pos) ==
    IF v = "Custom"
    THEN LET b == box_at(eb, 1, pos)
             n == intersected_count(ps, b.box)
         IN IF n > 1
            THEN Append(warns, [group |-> b.group, box |-> b.index, count |-> n])
            ELSE warns
    ELSE warns

FullInstance(box_data) == Instance(TRUE, box_data, TRUE)

\* The labels of an image: two persons apart from each other, a helmet on
\* the first person, a vest and boots over both
SceneLabels ==
    { Label(LabelName("person", "Capital"), TRUE,
            <<FullInstance(BoxData(5, 5, 0, 0)), FullInstance(BoxData(3, 3, 6, 6))>>),
      Label(LabelName("helmet", "Capital"), TRUE,
            <<FullInstance(BoxData(1, 1, 1, 1))>>),
      Label(LabelName("vest", "Capital"), TRUE,
            <<FullInstance(BoxData(9, 9, 0, 0))>>),
      Label(LabelName("boot", "Capital"), TRUE,
            <<FullInstance(BoxData(9, 9, 0, 0))>>) }

\* The flat detections of an image: a mask on the first person, a vest over
\* both
SceneCustomLabels ==
    { CustomLabel(LabelName("mask", "lower"), TRUE, TRUE, BoxData(1, 1, 1, 1)),
      CustomLabel(LabelName("vest", "lower"), TRUE, TRUE, BoxData(9, 9, 0, 0)) }

InitInvoke ==
    /\ variant \in Variants
    /\ hash_order \in Perms(PruneKeys(variant, DeclaredKeys(variant)))
    /\ config_keys = DeclaredKeys(variant)
    /\ pc = "ready"
    /\ persons = <<>>
    /\ equipment_boxes = <<>>
    /\ warnings = <<>>
    /\ stats = NoStats
    /\ last_call = NoCall
    /\ first_message = NoFirst
    /\ first_response = NoFirst
    /\ general_labels \in SeqsUpTo(SceneLabels, MaxSceneLabels)
    /\ custom_labels \in
         IF variant = "Custom" THEN SeqsUpTo(SceneCustomLabels, MaxCustomLabels)
         ELSE {<<>>}
    /\ mpos = 0
    /\ failed = {}
    /\ outcome = "none"
    /\ invocations = 0
    /\ GeomIdle
    /\ VestIdle

\* lambda_handler is entered: the groups whose custom module is off are
\* deleted from Config.TARGET_PPE_GROUP_KEYS; del raises KeyError on a missing
\* key
handler_enter ==
    /\ pc = "ready"
    /\ invocations < MaxInvocations
    /\ invocations' = invocations + 1
    /\ IF prune_raises(variant, config_keys)
       THEN /\ failed' = failed \cup {"KeyError"}
            /\ outcome' = "raised"
            /\ pc' = "done"
            /\ UNCHANGED config_keys
       ELSE /\ config_keys' = PruneKeys(variant, config_keys)
            /\ pc' = "detect"
            /\ UNCHANGED <<failed, outcome>>
    /\ UNCHANGED <<variant, hash_order, persons, equipment_boxes, warnings,
                   stats, last_call, first_message, first_response,
                   general_labels, custom_labels, mpos, geomVars, vestVars>>

\* build_stats up to the matching: a failing detect_labels or
\* detect_custom_labels raises out of build_stats and out of lambda_handler
detect_and_parse ==
    /\ pc = "detect"
    /\ \E provider_fails \in BOOLEAN :
        IF provider_fails
        THEN /\ failed' = failed \cup {"rekognition"}
             /\ outcome' = "raised"
             /\ pc' = "done"
             /\ UNCHANGED <<persons, equipment_boxes>>
        ELSE LET parsed == parse_general_objects(variant, config_keys,
                               general_labels, 1, <<>>, <<>>)
             IN /\ persons' = parsed.population
                /\ equipment_boxes' =
                     IF variant = "Custom"
                     THEN parse_custom_objects(config_keys, custom_labels, 1,
                                               parsed.equipment_boxes)
                     ELSE parsed.equipment_boxes
                /\ pc' = "match"
                /\ UNCHANGED <<failed, outcome>>
    /\ UNCHANGED <<variant, hash_order, config_keys, warnings, stats, last_call,
                   first_message, first_response, general_labels,
                   custom_labels, mpos, invocations, geomVars, vestVars>>

\* build_stats: one iteration of the outer matching loop
matching_step ==
    /\ pc = "match"
    /\ mpos < match_steps(variant, persons, equipment_boxes)
    /\ persons' = match_step(variant, persons, equipment_boxes, mpos + 1)
    /\ warnings' = match_step_warnings(variant, persons, warnings,
                                       equipment_boxes, mpos + 1)
    /\ mpos' = mpos + 1
    /\ UNCHANGED <<variant, hash_order, config_keys, pc, equipment_boxes, stats,
                   last_call, first_message, first_response, general_labels,
                   custom_labels, failed, outcome, invocations, geomVars, vestVars>>

\* build_stats: stats = Stats(population) once the loops are over
make_stats ==
    /\ pc = "match"
    /\ mpos = match_steps(variant, persons, equipment_boxes)
    /\ LET o == Stats_init(StatsObj(<<>>, <<>>, persons),
                           [i \in DOMAIN persons |-> i], 1)
       IN /\ persons' = o.persons
          /\ stats' = [population |-> o.population,
                       equipment2person |-> o.equipment2person]
    /\ pc' = "metrics"
    /\ UNCHANGED <<variant, hash_order, config_keys, equipment_boxes, warnings,
                   last_call, first_message, first_response, geomVars, vestVars, extVars>>

\* The two push_to_cloud_watch calls: an exception of put_metric_data is
\* caught inside push_to_cloud_watch and logged, the call returns normally
push_metrics ==
    /\ pc = "metrics"
    /\ \E sink_fails \in BOOLEAN :
         failed' = IF sink_fails THEN failed \cup {"cloudwatch"} ELSE failed
    /\ last_call' = Call("push_to_cloud_watch", "", FALSE,
                         <<equipped_size(stats, persons),
                           unequipped_size(stats, persons)>>)
    /\ pc' = "report"
    /\ UNCHANGED <<variant, hash_order, config_keys, persons, equipment_boxes,
                   warnings, stats, first_message, first_response,
                   general_labels, custom_labels, mpos, outcome, invocations,
                   geomVars, vestVars>>

\* prepare_message, generate_presigned_url, prepare_response,
\* send_message_to_iot_topic and the return of statusCode 200; a failing
\* publish raises out of lambda_handler
report ==
    /\ pc = "report"
    /\ \E presigned_url \in Urls :
        LET message == prepare_message(variant, stats, persons, config_keys)
            st == after_prepare_message(stats, config_keys)
            response == prepare_response(variant, st, persons, config_keys,
                                         presigned_url)
        IN /\ first_message' = [set |-> TRUE, url |-> "", result |-> message]
           /\ first_response' = [set |-> TRUE, url |-> presigned_url,
                                 result |-> response]
           /\ stats' = after_prepare_response(st, config_keys)
    /\ \E publish_fails \in BOOLEAN :
        IF publish_fails
        THEN /\ failed' = failed \cup {"iot"}
             /\ outcome' = "raised"
        ELSE /\ outcome' = "returned"
             /\ UNCHANGED failed
    /\ pc' = "done"
    /\ UNCHANGED <<variant, hash_order, config_keys, persons, equipment_boxes,
                   warnings, last_call, general_labels, custom_labels, mpos,
                   invocations, geomVars, vestVars>>

\* The invocation is over: its objects are dropped, Config stays as the
\* invocation left it, the process waits for the next event
handler_leave ==
    /\ pc = "done"
    /\ pc' = "ready"
    /\ persons' = <<>>
    /\ equipment_boxes' = <<>>
    /\ warnings' = <<>>
    /\ stats' = NoStats
    /\ last_call' = NoCall
    /\ first_message' = NoFirst
    /\ first_response' = NoFirst
    /\ mpos' = 0
    /\ failed' = {}
    /\ outcome' = "none"
    /\ UNCHANGED <<variant, hash_order, config_keys, general_labels,
                   custom_labels, invocations, geomVars, vestVars>>

NextInvoke ==
    \/ handler_enter
    \/ detect_and_parse
    \/ matching_step
    \/ make_stats
    \/ push_metrics
    \/ report
    \/ handler_leave

SpecInvoke == InitInvoke /\ [][NextInvoke]_vars

----------------------------------------------------------------------------
(* SpecVests: matchPersonsAndVests of lambda_function.py, statement by      *)
(* statement                                                                *)

\* An entry of personsList or vestsList: a dict object (id is its identity)
\* with the corner coordinates the rectangle test reads
Detection(id, x1, x2, y1, y4) ==
    [id |-> id, x1 |-> x1, x2 |-> x2, y1 |-> y1, y4 |-> y4]

\* The rectangle test of the inner loop
overlaps(v, q) ==
    ~(v.x2 < q.x1 \/ v.x1 > q.x2 \/ v.y4 < q.y1 \/ v.y1 > q.y4)

\* list[idx] in Python: the position read, counted from 1; 0 for IndexError
PyPos(list, idx) ==
    IF 0 <= idx /\ idx < Len(list) THEN idx + 1
    ELSE IF idx < 0 /\ 0 - idx <= Len(list) THEN Len(list) + idx + 1
    ELSE 0

\* del list[idx] for an index in range
del_at(list, idx) ==
    LET pos == PyPos(list, idx)
    IN [k \in 1..(Len(list) - 1) |-> IF k < pos THEN list[k] ELSE list[k + 1]]

\* A local list: its items, and whether it is the caller's list object
LocalList(items, alias) == [items |-> items, alias |-> alias]

\* persons = personsList: the local name bound to the caller's list.
copy_list_alias(list) == LocalList(list, TRUE)

\* persons = []; for person in personsList: persons.append(person)
copy_list(list) == LocalList(list, FALSE)

\* The index h of the whole list used on the shrinking list.
vest_index_unshifted(h, m) == h

\* vests[h-matched]: the index of the vest of outer iteration h
vest_index(h, m) == h - m

\* The inner loop stopping one person short of the end of the list.
inner_limit_short(list) == IF Len(list) > 0 THEN Len(list) - 1 ELSE 0

\* totalPersons = len(persons)
inner_limit(list) == Len(list)

\* The lists a caller can pass: three person boxes and three vest boxes.
\* The first vest lies inside the first person, the second touches all three
\* persons, the third lies below every person.
ScenePersonBoxes ==
    { <<0, 2, 0, 2>>, <<3, 5, 0, 2>>, <<0, 5, 3, 5>> }

SceneVestBoxes ==
    { <<1, 1, 1, 1>>, <<2, 3, 2, 3>>, <<4, 4, 6, 6>> }

Detections(boxes, n) ==
    { [k \in DOMAIN q |-> Detection(k, q[k][1], q[k][2], q[k][3], q[k][4])] :
        q \in SeqsUpTo(boxes, n) }

\* What stands for a local name before its first assignment
Unbound ==
    [list |-> LocalList(<<>>, FALSE), int |-> 0,
     detection |-> Detection(0, 0, 0, 0, 0)]

InitVests ==
    /\ ProcIdle
    /\ GeomIdle
    /\ vpc = "call"
    /\ personsList \in Detections(ScenePersonBoxes, MaxVestPersons)
    /\ vestsList \in Detections(SceneVestBoxes, MaxVests)
    /\ persons_left = Unbound.list
    /\ vests = Unbound.list
    /\ personsWithvests = <<>>
    /\ h_index = Unbound.int
    /\ matched = Unbound.int
    /\ totalvests = Unbound.int
    /\ vest = Unbound.detection
    /\ totalPersons = Unbound.int
    /\ p_index = Unbound.int

\* Lines 8-19: the local lists are filled, h = 0, matched = 0,
\* totalvests = len(vests)
copy_lists ==
    /\ vpc = "call"
    /\ persons_left' = copy_list(personsList)
    /\ vests' = copy_list(vestsList)
    /\ personsWithvests' = <<>>
    /\ h_index' = 0
    /\ matched' = 0
    /\ totalvests' = Len(vestsList)
    /\ vpc' = "outer"
    /\ UNCHANGED <<personsList, vestsList, vest, totalPersons, p_index,
                   geomVars, procVars, extVars>>

\* while(h < totalvests): vest = vests[h-matched]; totalPersons =
\* len(persons); p = 0.  An index out of range raises IndexError.
outer_pick ==
    /\ vpc = "outer"
    /\ h_index < totalvests
    /\ LET pos == PyPos(vests.items, vest_index(h_index, matched))
       IN IF pos = 0
          THEN /\ vpc' = "IndexError"
               /\ UNCHANGED <<vest, totalPersons, p_index>>
          ELSE /\ vest' = vests.items[pos]
               /\ totalPersons' = inner_limit(persons_left.items)
               /\ p_index' = 0
               /\ vpc' = "inner"
    /\ UNCHANGED <<personsList, vestsList, persons_left, vests,
                   personsWithvests, h_index, matched, totalvests,
                   geomVars, procVars, extVars>>

\* The list a del leaves in the caller's list object
Aliased(local, list, items) == IF local.alias THEN items ELSE list

\* while(p < totalPersons) with a person that passes the test: the pair is
\* appended, the person and the vest are deleted from the local lists,
\* matched is advanced, break, h = h + 1
inner_match ==
    /\ vpc = "inner"
    /\ p_index < totalPersons
    /\ LET ppos == PyPos(persons_left.items, p_index)
           vpos == PyPos(vests.items, vest_index(h_index, matched))
       IN IF ppos = 0
          THEN /\ vpc' = "IndexError"
               /\ UNCHANGED <<personsList, vestsList, persons_left, vests,
                              personsWithvests, h_index, matched>>
          ELSE /\ overlaps(vest, persons_left.items[ppos])
               /\ personsWithvests' =
                    Append(personsWithvests,
                           [Person |-> persons_left.items[ppos], Vest |-> vest])
               /\ persons_left' =
                    [persons_left EXCEPT !.items = del_at(@, p_index)]
               /\ personsList' =
                    Aliased(persons_left, personsList, persons_left'.items)
               /\ IF vpos = 0
                  THEN /\ vpc' = "IndexError"
                       /\ UNCHANGED <<vestsList, vests, h_index, matched>>
                  ELSE /\ vests' =
                            [vests EXCEPT
                               !.items = del_at(@, vest_index(h_index, matched))]
                       /\ vestsList' = Aliased(vests, vestsList, vests'.items)
                       /\ matched' = matched + 1
                       /\ h_index' = h_index + 1
                       /\ vpc' = "outer"
    /\ UNCHANGED <<totalvests, vest, totalPersons, p_index,
                   geomVars, procVars, extVars>>

\* while(p < totalPersons) with a person that fails the test: p = p + 1
inner_skip ==
    /\ vpc = "inner"
    /\ p_index < totalPersons
    /\ LET ppos == PyPos(persons_left.items, p_index)
       IN /\ ppos # 0
          /\ ~overlaps(vest, persons_left.items[ppos])
    /\ p_index' = p_index + 1
    /\ UNCHANGED <<vpc, personsList, vestsList, persons_left, vests,
                   personsWithvests, h_index, matched, totalvests, vest,
                   totalPersons, geomVars, procVars, extVars>>

\* The inner loop ends without a match: h = h + 1
inner_end ==
    /\ vpc = "inner"
    /\ p_index >= totalPersons
    /\ h_index' = h_index + 1
    /\ vpc' = "outer"
    /\ UNCHANGED <<personsList, vestsList, persons_left, vests,
                   personsWithvests, matched, totalvests, vest, totalPersons,
                   p_index, geomVars, procVars, extVars>>

\* The outer loop ends: return (personsWithvests, persons, vests)
return_lists ==
    /\ vpc = "outer"
    /\ h_index >= totalvests
    /\ vpc' = "returned"
    /\ UNCHANGED <<personsList, vestsList, persons_left, vests,
                   personsWithvests, h_index, matched, totalvests, vest,
                   totalPersons, p_index, geomVars, procVars, extVars>>

NextVests ==
    \/ copy_lists
    \/ outer_pick
    \/ inner_match
    \/ inner_skip
    \/ inner_end
    \/ return_lists

SpecVests == InitVests /\ [][NextVests]_vars

\* A call that has begun runs on: nothing outside the function can hold a
\* statement back.
SpecVestsFair == SpecVests /\ WF_vars(NextVests)

----------------------------------------------------------------------------
\* C2: for all boxes make_bounding_box can produce, zero width or height
\* included, if_boxes_intersect gives the same answer in both argument
\* orders, and so does if_intervals_intersect on each axis.
C2_Symmetric ==
    gpc = "tested" =>
        /\ res_lr = res_rl
        /\ if_intervals_intersect(lhs_box.x_interval, rhs_box.x_interval)
             = if_intervals_intersect(rhs_box.x_interval, lhs_box.x_interval)
        /\ if_intervals_intersect(lhs_box.y_interval, rhs_box.y_interval)
             = if_intervals_intersect(rhs_box.y_interval, lhs_box.y_interval)

\* Two boxes share only an edge or a corner: on some axis the max of one
\* interval equals the min of the other.
Touching(a, b) ==
    \/ a.x_interval.max = b.x_interval.min
    \/ b.x_interval.max = a.x_interval.min
    \/ a.y_interval.max = b.y_interval.min
    \/ b.y_interval.max = a.y_interval.min

\* C3: two boxes that share only an edge or a corner are never reported as
\* intersecting, in either argument order.
C3_TouchingNeverIntersect ==
    (gpc = "tested" /\ Touching(lhs_box, rhs_box)) =>
        (res_lr = FALSE /\ res_rl = FALSE)

\* The provider box is normalised on both axes.
Normalised(data, box) ==
    /\ box.x_interval.min <= box.x_interval.max
    /\ box.y_interval.min <= box.y_interval.max
    /\ {box.x_interval.min, box.x_interval.max} = {data.Left, data.Left + data.Width}
    /\ {box.y_interval.min, box.y_interval.max} = {data.Top, data.Top + data.Height}

\* C16: for every width, height, left and top, negative width or height
\* included, make_bounding_box returns the x interval
\* [min(left, left+width), max(left, left+width)] and the y interval
\* [min(top, top+height), max(top, top+height)], so min <= max on both axes.
C16_BoxNormalised ==
    gpc \in {"boxes", "tested"} =>
        /\ Normalised(lhs_data, lhs_box)
        /\ Normalised(rhs_data, rhs_box)

\* A box was made from a negative width and a negative height.
C16_Witness ==
    /\ gpc = "boxes"
    /\ lhs_data.Width < 0
    /\ lhs_data.Height < 0
    /\ lhs_box.x_interval.max = lhs_data.Left
    /\ lhs_box.y_interval.max = lhs_data.Top

\* The standard overlap test of two axis-aligned rectangles
StandardOverlap(a, b) ==
    /\ Max2(a.x_interval.min, b.x_interval.min) < Min2(a.x_interval.max, b.x_interval.max)
    /\ Max2(a.y_interval.min, b.y_interval.min) < Min2(a.y_interval.max, b.y_interval.max)

\* C19: for all boxes A and B with min <= max on both axes,
\* if_boxes_intersect(A, B) is true if and only if the standard overlap test
\* holds on both axes.
C19_StandardOverlap ==
    gpc = "tested" =>
        /\ res_lr = StandardOverlap(lhs_box, rhs_box)
        /\ res_rl = StandardOverlap(rhs_box, lhs_box)

----------------------------------------------------------------------------
(* Claims about matching and Stats, under Spec *)

\* Every group name of either lambda
AllGroups == {"helmet", "vest", "mask", "boot"}

\* Person p's box intersects at least one box the equipment map holds under c.
HasIntersectingBox(p, c) ==
    \E k \in DOMAIN equipment_boxes :
        /\ equipment_boxes[k].key = c
        /\ \E j \in DOMAIN equipment_boxes[k].value :
              if_boxes_intersect(persons[p].box, equipment_boxes[k].value[j])

\* C1: after the matching step, for every person p and every category c, c
\* is in p's equipment set if and only if the equipment map holds at least
\* one box under c that intersects p's box; a box that intersects several
\* persons gives the category to every one of them.
C1_EquipmentIffIntersects ==
    pc = "built" =>
        \A p \in DOMAIN persons : \A c \in AllGroups :
            (c \in persons[p].equipment) <=> HasIntersectingBox(p, c)

\* One box intersects two persons and both wear its category, while another
\* category is on the first person only.
C1_Witness ==
    /\ pc = "built"
    /\ Len(persons) >= 2
    /\ \E k \in DOMAIN equipment_boxes :
          /\ intersected_count(persons, equipment_boxes[k].value[1]) >= 2
          /\ equipment_boxes[k].key \in persons[1].equipment
          /\ equipment_boxes[k].key \in persons[2].equipment

Positions(st) == DOMAIN st.population

Unequipped(st) == { k \in Positions(st) : persons[st.population[k]].equipment = {} }

Equipped(st) == { k \in Positions(st) : persons[st.population[k]].equipment # {} }

\* C4: for every Stats object, population_size() = equipped_size() +
\* unequipped_size(), unequipped_size() is the number of persons with an
\* empty equipment set and equipped_size() the number of persons with a
\* non-empty one; the values the calls return are these numbers.
C4_SizesAddUp ==
    pc = "built" =>
        /\ population_size(stats) =
              equipped_size(stats, persons) + unequipped_size(stats, persons)
        /\ unequipped_size(stats, persons) = Cardinality(Unequipped(stats))
        /\ equipped_size(stats, persons) = Cardinality(Equipped(stats))
        /\ last_call.name = "population_size" =>
              last_call.result = Cardinality(Equipped(stats)) + Cardinality(Unequipped(stats))
        /\ last_call.name = "unequipped_size" =>
              last_call.result = Cardinality(Unequipped(stats))
        /\ last_call.name = "equipped_size" =>
              last_call.result = Cardinality(Equipped(stats))

\* equipped_size() was called on a population with an equipped and an
\* unequipped person.
C4_Witness ==
    /\ pc = "built"
    /\ last_call.name = "equipped_size"
    /\ last_call.result = 1
    /\ Cardinality(Unequipped(stats)) = 1

\* C5: every person in Stats.population has ind equal to its zero-based
\* position in the list, and the list is the person list in the parser's
\* insertion order.
C5_IndIsPosition ==
    pc = "built" =>
        /\ stats.population = [i \in DOMAIN persons |-> i]
        /\ \A k \in Positions(stats) : persons[stats.population[k]].ind = k - 1

C5_Witness ==
    /\ pc = "built"
    /\ Len(stats.population) >= 2
    /\ persons[stats.population[2]].ind = 1
    /\ persons[1].box # persons[2].box

\* The persons of the population that wear c, in population order
Wearers(st, c) ==
    SelectSeq(st.population, LAMBDA id : c \in persons[id].equipment)

\* C6: for every category c, equipment2person[c] holds exactly the persons
\* of the population whose equipment set contains c, each once, in
\* population order; a person wearing several categories is under each.
C6_IndexIsWearers ==
    pc = "built" =>
        \A c \in AllGroups : DefaultGet(stats.equipment2person, c) = Wearers(stats, c)

\* One person is listed under two categories, after another person under one
\* of them.
C6_Witness ==
    /\ pc = "built"
    /\ \E c, d \in AllGroups :
          /\ c # d
          /\ Len(DefaultGet(stats.equipment2person, c)) = 2
          /\ DefaultGet(stats.equipment2person, d) = <<2>>

\* The number of warnings logged for box j of group c
WarningCount(c, j) ==
    Cardinality({ w \in DOMAIN warnings : warnings[w].group = c /\ warnings[w].box = j })

\* C7: during matching a warning is logged exactly once for each
\* (category, box) pair whose box intersects more than one person and never
\* for a box that intersects zero or one person, and every intersecting
\* person still receives the category.
C7_WarningOncePerSharedBox ==
    pc = "built" =>
        \A k \in DOMAIN equipment_boxes : \A j \in DOMAIN equipment_boxes[k].value :
            LET c == equipment_boxes[k].key
                box == equipment_boxes[k].value[j]
            IN /\ WarningCount(c, j) = IF intersected_count(persons, box) > 1 THEN 1 ELSE 0
               /\ \A p \in DOMAIN persons :
                     if_boxes_intersect(persons[p].box, box) => c \in persons[p].equipment

\* C8: once the Stats object exists, no query changes its population list or
\* its category-to-persons index: same keys and same lists before and after.
C8_QueriesLeaveStatsUnchanged ==
    [][(pc = "built" /\ pc' = "built") =>
          /\ stats'.population = stats.population
          /\ DictKeys(stats'.equipment2person) = DictKeys(stats.equipment2person)
          /\ \A c \in AllGroups :
                DefaultGet(stats'.equipment2person, c) = DefaultGet(stats.equipment2person, c)]_vars

\* C9: a repeated prepare_message, or a repeated prepare_response with the
\* URL of the first one, returns what the first call returned, whatever
\* queries ran in between.
C9_RepeatedCallSameOutput ==
    pc = "built" =>
        /\ (last_call.name = "prepare_message" /\ last_call.repeat) =>
              last_call.result = first_message.result
        /\ (last_call.name = "prepare_response" /\ last_call.repeat) =>
              last_call.result = first_response.result

\* prepare_response was repeated with the same URL, after a prepare_message,
\* on a Stats with an equipped person and a group nobody wears.
C9_Witness ==
    /\ pc = "built"
    /\ last_call.name = "prepare_response"
    /\ last_call.repeat
    /\ first_message.set
    /\ Equipped(stats) # {}
    /\ \E k \in DOMAIN config_keys : Wearers(stats, config_keys[k]) = <<>>

\* C10: the PersonsPerEquipment map of prepare_response has exactly the
\* configured categories as keys, and the value for c is the list of
\* str(ind) of the persons whose equipment set contains c, in population
\* order (empty for a category no person wears).
C10_PersonsPerEquipment ==
    (pc = "built" /\ last_call.name = "prepare_response") =>
        LET ppe == last_call.result.PersonsPerEquipment
        IN /\ Len(ppe) = Len(config_keys)
           /\ DictKeys(ppe) = { config_keys[k] : k \in DOMAIN config_keys }
           /\ \A k \in DOMAIN config_keys :
                 LET w == Wearers(stats, config_keys[k])
                 IN DictGet(ppe, config_keys[k]) =
                       [j \in DOMAIN w |-> Str(persons[w[j]].ind)]

\* The response lists person "1" alone under one category and nobody under
\* another.
C10_Witness ==
    /\ pc = "built"
    /\ last_call.name = "prepare_response"
    /\ \E c, d \in DictKeys(last_call.result.PersonsPerEquipment) :
          /\ DictGet(last_call.result.PersonsPerEquipment, c) = << <<"1">> >>
          /\ DictGet(last_call.result.PersonsPerEquipment, d) = <<>>

\* Position of a group name in the alphabet
AlphaRank(g) ==
    CHOOSE r \in 1..4 : <<"boot", "helmet", "mask", "vest">>[r] = g

Alphabetical(names) ==
    \A i, j \in DOMAIN names : i < j => AlphaRank(names[i]) < AlphaRank(names[j])

\* C11: for every person with a non-empty equipment set, the category names
\* in that person's line of prepare_message and in that person's equipment
\* list of prepare_response are in alphabetical order, whatever order the
\* set iterates in.
C11_NamesAlphabetical ==
    pc = "built" =>
        /\ last_call.name = "prepare_message" =>
              \A k \in DOMAIN last_call.result : Alphabetical(last_call.result[k].names)
        /\ last_call.name = "prepare_response" =>
              /\ \A k \in DOMAIN last_call.result.Message :
                    Alphabetical(last_call.result.Message[k].names)
              /\ \A k \in DOMAIN last_call.result.EquipmentPerPerson :
                    Alphabetical(last_call.result.EquipmentPerPerson[k].equipment)

\* Persons with their equipment emptied: the population as the parser
\* hands it to the matching loop.
Unmatched(ps) == [i \in DOMAIN ps |-> Person(ps[i].box)]

\* The Stats object the lambda v builds from population ps and map eb
StatsOf(v, ps, eb) ==
    Stats_init(StatsObj(<<>>, <<>>, match(v, ps, eb).population),
               [i \in DOMAIN ps |-> i], 1)

\* C20: for the same population and the same equipment map, the person-outer
\* loop of Lambda_PreTrained and the box-outer loop of
\* Lambda_PreTrained_and_CustomLabels leave every person with the same
\* equipment set, and the Stats built from them report the same population,
\* equipped and unequipped counts.  Stated where build_stats returns.
C20_LoopsEquivalent ==
    (pc = "built" /\ last_call = NoCall) =>
        LET ps == Unmatched(persons)
            a == StatsOf("Custom", ps, equipment_boxes)
            b == StatsOf("PreTrained", ps, equipment_boxes)
        IN /\ \A i \in DOMAIN ps :
                 /\ a.persons[i].equipment = b.persons[i].equipment
                 /\ a.persons[i].equipment = persons[i].equipment
           /\ population_size(a) = population_size(b)
           /\ unequipped_size(a, a.persons) = unequipped_size(b, b.persons)
           /\ equipped_size(a, a.persons) = equipped_size(b, b.persons)

\* Two boxes of different groups over two persons, one box over both: each
\* loop visits several boxes for several persons.
C20_Witness ==
    /\ pc = "built"
    /\ last_call = NoCall
    /\ Len(persons) = 2
    /\ Len(equipment_boxes) = 2
    /\ Cardinality(persons[1].equipment) = 2
    /\ Cardinality(persons[2].equipment) = 1


----------------------------------------------------------------------------
(* Claims about the parsers, under SpecParse *)

\* Concatenation of a sequence of sequences
RECURSIVE Concat(_)
Concat(ss) == IF ss = <<>> THEN <<>> ELSE Head(ss) \o Concat(Tail(ss))

\* The boxes of the entries that satisfy Keep, in input order
BoxesWhere(entries, Keep(_)) ==
    LET kept == SelectSeq(entries, Keep)
    IN [i \in DOMAIN kept |-> make_bounding_box(kept[i].BoundingBox)]

\* One Person per instance that carries both a box and a confidence, for the
\* labels the parser takes as persons
FullPersons(v, labels) ==
    LET boxes == Concat([k \in DOMAIN labels |->
                    IF /\ labels[k].HasInstances
                       /\ name_in(v, labels[k].Name, PERSON_KEYS(v))
                    THEN BoxesWhere(labels[k].Instances,
                            LAMBDA e : e.HasBoundingBox /\ e.HasConfidence)
                    ELSE <<>>])
    IN [i \in DOMAIN boxes |-> Person(boxes[i])]

\* C12: the parser creates exactly one Person for each instance of a person
\* label that carries both a bounding box and a confidence, and none for an
\* instance that lacks either.
C12_OnePersonPerFullInstance ==
    pc \in {"general", "parsed"} => persons = FullPersons(variant, general_labels)

\* The labels with every name written in the case c
Recased(labels, c) ==
    [k \in DOMAIN labels |-> [labels[k] EXCEPT !.Name.case = c]]

\* C13: name matching is case-insensitive: the parser's persons and equipment
\* boxes are the same however the names of the labels are cased.
C13_CaseInsensitive ==
    \A c \in Cases :
        /\ pc = "general" =>
             LET parsed == parse_general_objects(variant, config_keys,
                               Recased(general_labels, c), 1, <<>>, <<>>)
             IN /\ parsed.population = persons
                /\ parsed.equipment_boxes = equipment_boxes
        /\ pc = "parsed" =>
             LET parsed == parse_general_objects(variant, config_keys,
                               Recased(general_labels, c), 1, <<>>, <<>>)
             IN /\ parsed.population = persons
                /\ parse_custom_objects(config_keys, Recased(custom_labels, c),
                                        1, parsed.equipment_boxes)
                     = equipment_boxes

\* The boxes a category holds after both parsers: those of the general
\* labels, then those of the flat detections, each in input order
CategoryBoxes(group, labels, flat) ==
    LET names == TARGET_PPE_GROUP_KEYS("Custom", group)
    IN Concat([k \in DOMAIN labels |->
            IF labels[k].HasInstances /\ lower(labels[k].Name) \in names
            THEN BoxesWhere(labels[k].Instances, LAMBDA e : e.HasBoundingBox)
            ELSE <<>>])
       \o BoxesWhere(flat, LAMBDA e : /\ lower(e.Name) \in names
                                      /\ e.HasGeometry
                                      /\ e.HasBoundingBox)

----------------------------------------------------------------------------
(* Claims about lambda_handler, under SpecInvoke *)

\* The categories that have a custom module which is not turned on
ExcludedGroups(v) ==
    { g \in CUSTOM_LABEL_ARNS(v) : g \notin TURNED_ON_CUSTOM_MODULES(v) }

\* The category names that the lines of a message mention
MessageGroups(message) ==
    { message[k].name : k \in DOMAIN message }
    \cup UNION { { message[k].names[j] : j \in DOMAIN message[k].names } :
                 k \in DOMAIN message }

\* The category names that a response mentions
ResponseGroups(response) ==
    MessageGroups(response.Message)
    \cup { response.PersonsPerEquipment[k].key :
             k \in DOMAIN response.PersonsPerEquipment }
    \cup UNION { { response.EquipmentPerPerson[k].equipment[j] :
                     j \in DOMAIN response.EquipmentPerPerson[k].equipment } :
                 k \in DOMAIN response.EquipmentPerPerson }

\* C14: a category whose custom module is not turned on never appears as a
\* key of the equipment map, in a person's equipment set, in the index of
\* the Stats, in a line of the message or in the response.
C14_ExcludedNeverAppears ==
    \A g \in ExcludedGroups(variant) :
        /\ g \notin DictKeys(equipment_boxes)
        /\ \A i \in DOMAIN persons : g \notin persons[i].equipment
        /\ g \notin DictKeys(stats.equipment2person)
        /\ first_message.set => g \notin MessageGroups(first_message.result)
        /\ first_response.set => g \notin ResponseGroups(first_response.result)

C14_Witness ==
    /\ variant = "Custom"
    /\ pc = "done"
    /\ outcome = "returned"
    /\ first_response.set
    /\ \E k \in DOMAIN general_labels :
          /\ general_labels[k].Name.text = "vest"
          /\ \E i \in DOMAIN persons :
                if_boxes_intersect(persons[i].box,
                    make_bounding_box(general_labels[k].Instances[1].BoundingBox))
    /\ \E k \in DOMAIN custom_labels : custom_labels[k].Name.text = "vest"

\* C17: a step of the matching only adds categories: it never removes or
\* reorders persons, never changes a person's box and never removes a
\* category already assigned; the Stats built afterwards hold every person,
\* the unmatched ones with an empty set.
C17_MatchingOnlyAdds ==
    [][ pc = "match" =>
          /\ Len(persons') = Len(persons)
          /\ \A i \in DOMAIN persons :
                /\ persons'[i].box = persons[i].box
                /\ persons[i].equipment \subseteq persons'[i].equipment
          /\ pc' = "metrics" =>
                /\ stats'.population = [i \in DOMAIN persons |-> i]
                /\ \A i \in DOMAIN persons :
                      persons'[i].equipment = persons[i].equipment
      ]_vars

C17_Witness ==
    /\ pc = "metrics"
    /\ \E i \in DOMAIN persons :
          /\ persons[i].equipment = {}
          /\ \E k \in DOMAIN stats.population : stats.population[k] = i
    /\ \E i \in DOMAIN persons : Cardinality(persons[i].equipment) >= 2

\* C18: when a call to an external collaborator (the detection provider,
\* the metrics sink, the notification sink) fails during an invocation, the
\* failure propagates out of lambda_handler: the handler does not end by
\* returning statusCode 200.
C18_FailurePropagates ==
    (pc = "done" /\ failed # {}) => outcome = "raised"

\* The declared categories that have no custom-label ARN or are turned on
KeptKeys(v) ==
    SelectSeq(DeclaredKeys(v), LAMBDA g :
        g \notin CUSTOM_LABEL_ARNS(v) \/ g \in TURNED_ON_CUSTOM_MODULES(v))

\* C21: the pruning at the start of lambda_handler is idempotent over the
\* invocations of one process: once an invocation has begun, the keys of
\* Config.TARGET_PPE_GROUP_KEYS are exactly the declared categories that have
\* no ARN or are turned on, in every later invocation too, and the del
\* statement never raises.
C21_PruningIdempotent ==
    /\ invocations >= 1 => config_keys = KeptKeys(variant)
    /\ "KeyError" \notin failed

C21_Witness ==
    /\ variant = "Custom"
    /\ invocations = 2
    /\ pc = "detect"
    /\ config_keys = <<"helmet", "mask", "boot">>

----------------------------------------------------------------------------
(* Claims about matchPersonsAndVests, under SpecVests and SpecVestsFair *)

\* How often the object x is in the list
Count(list, x) == Cardinality({ k \in DOMAIN list : list[k] = x })

PairPersons == [k \in DOMAIN personsWithvests |-> personsWithvests[k].Person]
PairVests == [k \in DOMAIN personsWithvests |-> personsWithvests[k].Vest]

\* The returned lists split the input lists one to one
Partition ==
    /\ \A i \in DOMAIN personsList :
          Count(PairPersons, personsList[i])
            + Count(persons_left.items, personsList[i]) = 1
    /\ \A i \in DOMAIN vestsList :
          Count(PairVests, vestsList[i]) + Count(vests.items, vestsList[i]) = 1
    /\ Len(personsWithvests) + Len(persons_left.items) = Len(personsList)
    /\ Len(personsWithvests) + Len(vests.items) = Len(vestsList)

\* C22: matchPersonsAndVests returns a one-to-one partition: every input
\* person is in exactly one returned pair or in the unmatched persons, never
\* both, every input vest likewise, the numbers add up, and no statement of
\* the function changes the caller's lists.
C22_OneToOnePartition ==
    [][ /\ personsList' = personsList
        /\ vestsList' = vestsList
        /\ vpc' = "returned" => Partition'
      ]_vars

C22_Witness ==
    /\ vpc = "returned"
    /\ Len(personsWithvests) >= 1
    /\ Len(persons_left.items) >= 1
    /\ Len(vests.items) >= 1

\* C23: the function terminates after examining each input vest once: the
\* index h - matched is never out of range, at outer iteration h it selects
\* the h-th vest of the input list even after earlier vests were deleted,
\* and the call returns with h at the length of the input list.
C23_EachVestOnce ==
    /\ [](/\ vpc # "IndexError"
          /\ vpc = "inner" => vest = vestsList[h_index + 1]
          /\ vpc = "returned" => h_index = Len(vestsList))
    /\ <>(vpc = "returned")

C23_Witness ==
    /\ vpc = "inner"
    /\ matched >= 1
    /\ h_index = 2
    /\ Len(vests.items) < Len(vestsList)

\* C24: the matching is maximal: on return no unmatched vest passes the
\* rectangle test with an unmatched person, and the two boxes of every
\* returned pair pass it.
C24_MatchingMaximal ==
    vpc = "returned" =>
        /\ \A i \in DOMAIN vests.items : \A k \in DOMAIN persons_left.items :
              ~overlaps(vests.items[i], persons_left.items[k])
        /\ \A k \in DOMAIN personsWithvests :
              overlaps(personsWithvests[k].Vest, personsWithvests[k].Person)

C24_Witness ==
    /\ vpc = "returned"
    /\ Len(personsWithvests) = 2
    /\ Len(persons_left.items) = 1
    /\ Len(vests.items) = 1

====
